---- MODULE Spec2Model ----
(***************************************************************************)
(* A model of the chunking engine of the embedded C AST parser:            *)
(*   - CChunker.chunkify, the buffered chunker with overlap                *)
(*     (src/EXPLANATION.md, "Chunking Strategy");                          *)
(*   - CASTParser._group_related_nodes, _split_large_node and              *)
(*     _build_hierarchy (src/unnamed/part_002, "CAST Approach").           *)
(* Texts are modelled by their lengths: a node's formatted content is a    *)
(* number of bytes, a line of code is the number of its characters.        *)
(***************************************************************************)
EXTENDS Integers, Sequences, FiniteSets, TLC

(***************************************************************************)
(* Bounds of the model.                                                    *)
(***************************************************************************)
MaxNodes == 4
MaxGroupNodes == 2
MaxSize == 2
MaxChunkSize == 4
MaxOverlap == 2
MaxLines == 5
MaxLineLen == 2
MaxCandidates == 3
MaxLine == 4
MaxBlocks == 2
MaxGap == 2

(***************************************************************************)
(* Generic helpers on sequences.                                           *)
(***************************************************************************)
RECURSIVE SumSeq(_)
SumSeq(s) == IF s = <<>> THEN 0 ELSE Head(s) + SumSeq(Tail(s))

Range(s) == {s[k] : k \in 1..Len(s)}

\* Python's s[-k:] for k > 0: the last k elements, all of s when it has fewer.
LastK(s, k) == IF Len(s) <= k THEN s ELSE SubSeq(s, Len(s) - k + 1, Len(s))

RECURSIVE Flatten(_)
Flatten(ss) == IF ss = <<>> THEN <<>> ELSE Head(ss) \o Flatten(Tail(ss))

(***************************************************************************)
(* ASTNode: the fields of a node that the chunkers read.  parent is the    *)
(* parent conditional directive, NoParent standing for Python's None.      *)
(***************************************************************************)
NoParent == "None"

\* The configurations: a small world of a few bytes, and the world of the
\* documented scenarios (100-byte nodes against 250, 50-byte nodes against 1000).
MaxChunkSizes == (1..MaxChunkSize) \cup {250, 1000}

SizesFor(max) ==
    IF max = 250 THEN {100} ELSE IF max = 1000 THEN {50} ELSE 1..MaxSize


\* The longest list handed to _group_related_nodes: the lists of the
\* documented scenarios are as long as chunkify's, the others shorter.
GroupLimit(max) == IF max \in {250, 1000} THEN MaxNodes ELSE MaxGroupNodes

\* Start lines of the nodes handed to _group_related_nodes: two lines give
\* sorted lists, unsorted lists and ties.
StartLines == {1, 2}

VARIABLES
    impl,            \* which chunker runs: "CChunker" or "CAST"
    max_chunk_size,  \* self.max_chunk_size
    overlap_units,   \* self.overlap_units (CChunker only)
    one_symbol_per_chunk, \* self.one_symbol_per_chunk (CChunker only)
    nodes,           \* the node list the chunker iterates over
    pc,              \* position in the running function
    i,               \* how many nodes the first "for node in nodes" has taken
    run,             \* 1 for the first call on this input, 2 for the second
    first_result,    \* what the first call returned
    chunks,          \* chunkify: the chunks emitted so far
    buffer,          \* chunkify: len(buffer), the rendered text of the open chunk
    node_buffer,     \* chunkify: the nodes of the open chunk (indexes into nodes)
    seeded,          \* how many leading nodes of node_buffer were carried over
    parent_groups,   \* _group_related_nodes: the dict, in insertion order
    gi,              \* _group_related_nodes: number of the parent group in work
    gj,              \* _group_related_nodes: nodes of that group already taken
    result_groups,   \* _group_related_nodes: the groups closed so far
    current_group,   \* _group_related_nodes: the open group
    current_size,    \* the size of the open group (_group_related_nodes) or of
                     \* the open part (_split_large_node)
    node,            \* _split_large_node: the node to split
    lines,           \* _split_large_node: node.code.splitlines(), as line lengths
    parts,           \* _split_large_node: its list "chunks", the parts made so far
    current_chunk,   \* _split_large_node: the lines of the open part
    root_nodes,      \* _build_hierarchy: the roots found so far
    children,        \* CASTNode.children of every node
    parent_node,     \* CASTNode.parent_node of every node (0 for None)
    depth,           \* CASTNode.depth of every node
    respect_hierarchy, \* self.respect_hierarchy of the CAST chunker
    name,            \* ASTNode.name of every node ("" for None)
    context,         \* the "context" entry of every node's chunk_units entry
    targets,         \* parse_source: the start positions of the nodes to visit
    blocks,          \* _find_nearest_comment: the end positions of the blocks
    max_gap,         \* _find_nearest_comment: its parameter max_gap
    bi,              \* _find_nearest_comment: how many blocks the loop has taken
    best,            \* _find_nearest_comment: the block kept so far (0 for None)
    gap              \* _find_nearest_comment: the smallest gap so far

configVars == <<impl, max_chunk_size, overlap_units, one_symbol_per_chunk>>
chunkifyVars == <<chunks, buffer, node_buffer, seeded>>
groupVars == <<parent_groups, gi, gj, result_groups, current_group, current_size>>
groupVars0 == <<parent_groups, gi, gj, result_groups, current_group>>
mergerVars == <<nodes, i, run, first_result, chunkifyVars,
                parent_groups, gi, gj, result_groups, current_group>>
splitVars == <<node, lines, parts, current_chunk>>
hierVars == <<root_nodes, children, parent_node, depth>>
metaVars == <<respect_hierarchy, name, context>>
commentVars == <<targets, blocks, max_gap, bi, best, gap>>
restVars == <<metaVars, commentVars>>
vars == <<configVars, pc, current_size, mergerVars, splitVars, hierVars, restVars>>

\* node.parent: a directive text or None.  _group_related_nodes reads it as
\* "node.parent or 'root'", so a directive text "root" is among its inputs.
ParentsFor(max) ==
    IF max = 1000 THEN {"FEATURE_A", "FEATURE_B"}
    ELSE IF impl = "CAST" THEN {NoParent, "FEATURE_A", "root"}
    ELSE {NoParent, "FEATURE_A"}

\* The chunks the running chunker has emitted.
Emitted == IF impl = "CChunker" THEN chunks ELSE result_groups

\* The node lists the loop may see after taking one more node: the first call
\* reads what the parser produced, the second call reads the same list again.
Incoming(limit, startLines) ==
    IF run = 1
    THEN IF Len(nodes) < limit
         THEN {Append(nodes, [start_line |-> l, size |-> sz, parent |-> p]) :
                  l \in startLines, sz \in SizesFor(max_chunk_size),
                  p \in ParentsFor(max_chunk_size)}
         ELSE {}
    ELSE IF i < Len(nodes) THEN {nodes} ELSE {}

(***************************************************************************)
(* CChunker.chunkify, buffered mode.                                       *)
(***************************************************************************)
\* len(self._format_node_content(node))
NodeContentLen(ns, n) == ns[n].size

\* len("\n\n".join(self._format_node_content(n) for n in keep))
JoinedLen(ns, keep) ==
    IF keep = <<>> THEN 0
    ELSE SumSeq([k \in 1..Len(keep) |-> NodeContentLen(ns, keep[k])])
         + 2 * (Len(keep) - 1)

\* The chunk metadata has no "oversize" key: no chunk is flagged.
Oversize(chunk) == FALSE

\* self._emit_chunk(node_buffer, buffer, filepath)
EmitChunk(nb, buf, sd) == [nodes |-> nb, size |-> buf, seeded |-> sd]

\* if buffer and (len(buffer) + len(node_content) > self.max_chunk_size)
\* Variant: the buffer is also closed when the new unit fills it exactly.
MustEmit_AtLeast(buf, content) == buf > 0 /\ buf + content >= max_chunk_size

MustEmit(buf, content) == buf > 0 /\ buf + content > max_chunk_size

\* Variant: the first overlap_units units are kept instead of the last.
Keep_FirstUnits(nb) ==
    IF overlap_units > 0 /\ nb # <<>>
    THEN SubSeq(nb, 1, IF overlap_units < Len(nb) THEN overlap_units ELSE Len(nb))
    ELSE <<>>

\* keep = node_buffer[-self.overlap_units:] when overlap_units and node_buffer
Keep(nb) == IF overlap_units > 0 /\ nb # <<>> THEN LastK(nb, overlap_units) ELSE <<>>

\* Variant: the unit is put in front of the buffer.
AddToBuffer_Prepend(nb, n) == <<n>> \o nb

\* node_buffer.append(node)
AddToBuffer(nb, n) == Append(nb, n)

\* buffer = (buffer + "\n\n" + node_content) if buffer else node_content
Appended(buf, content) == IF buf > 0 THEN buf + 2 + content ELSE content

\* Variant: only the chunk list is fresh; the buffers survive the call.
ChunkifyLocals_KeepBuffer ==
    /\ chunks' = <<>>
    /\ UNCHANGED <<buffer, node_buffer, seeded>>

\* chunks, buffer, node_buffer = [], "", []
ChunkifyLocals ==
    /\ chunks' = <<>>
    /\ buffer' = 0
    /\ node_buffer' = <<>>
    /\ seeded' = 0

\* One iteration of "for node in nodes" on node number n of the list ns.
ChunkifyNode(ns, n) ==
    LET content == NodeContentLen(ns, n)
        emit    == MustEmit(buffer, content)
        keep    == Keep(node_buffer)
        buf0    == IF emit THEN JoinedLen(ns, keep) ELSE buffer
        nb0     == IF emit THEN keep ELSE node_buffer
    IN  /\ chunks' = IF emit THEN Append(chunks, EmitChunk(node_buffer, buffer, seeded))
                             ELSE chunks
        /\ seeded' = IF emit THEN Len(keep) ELSE seeded
        /\ node_buffer' = AddToBuffer(nb0, n)
        /\ buffer' = Appended(buf0, content)

ChunkifyConsume ==
    /\ UNCHANGED <<splitVars, hierVars, restVars>>
    /\ impl = "CChunker"
    /\ ~one_symbol_per_chunk
    /\ pc = "loop"
    /\ \E ns \in Incoming(MaxNodes, {Len(nodes) + 1}) :
          /\ nodes' = ns
          /\ ChunkifyNode(ns, i + 1)
    /\ i' = i + 1
    /\ UNCHANGED <<configVars, pc, run, first_result, groupVars>>

\* Variant: what is left in the buffer after the loop is not emitted.
FinalFlush_Skip(cs, nb, buf, sd) == cs

\* if node_buffer: chunks.append(self._emit_chunk(node_buffer, buffer, filepath))
FinalFlush(cs, nb, buf, sd) ==
    IF nb # <<>> THEN Append(cs, EmitChunk(nb, buf, sd)) ELSE cs

\* "if node_buffer: chunks.append(...)" and "return chunks".
ChunkifyReturn ==
    /\ UNCHANGED <<splitVars, hierVars, restVars>>
    /\ impl = "CChunker"
    /\ ~one_symbol_per_chunk
    /\ pc = "loop"
    /\ i = Len(nodes)
    /\ chunks' = FinalFlush(chunks, node_buffer, buffer, seeded)
    /\ pc' = "done"
    /\ UNCHANGED <<configVars, nodes, i, run, first_result,
                   buffer, node_buffer, seeded, groupVars>>

OneSymbolChunk_Truncated(ns, k) ==
    EmitChunk(<<k>>, IF NodeContentLen(ns, k) > max_chunk_size
                     THEN max_chunk_size ELSE NodeContentLen(ns, k), 0)

\* content = self._format_node_content(node); self._emit_chunk([node], content, filepath)
OneSymbolChunk(ns, k) == EmitChunk(<<k>>, NodeContentLen(ns, k), 0)

\* One iteration of "for node in nodes" of the branch
\* "if self.one_symbol_per_chunk": the node is emitted as a chunk of its own.
ChunkifyOneSymbol ==
    /\ UNCHANGED <<splitVars, hierVars, restVars>>
    /\ impl = "CChunker"
    /\ one_symbol_per_chunk
    /\ pc = "loop"
    /\ \E ns \in Incoming(MaxNodes, {Len(nodes) + 1}) :
          /\ nodes' = ns
          /\ chunks' = Append(chunks, OneSymbolChunk(ns, i + 1))
    /\ i' = i + 1
    /\ UNCHANGED <<configVars, pc, run, first_result, buffer, node_buffer, seeded,
                   groupVars>>

\* "return chunks" of that branch.
ChunkifyOneReturn ==
    /\ UNCHANGED <<splitVars, hierVars, restVars>>
    /\ impl = "CChunker"
    /\ one_symbol_per_chunk
    /\ pc = "loop"
    /\ i = Len(nodes)
    /\ pc' = "done"
    /\ UNCHANGED <<configVars, nodes, i, run, first_result, chunkifyVars, groupVars>>

(***************************************************************************)
(* CASTParser._group_related_nodes.                                        *)
(***************************************************************************)
\* Variant: every node falls into the one bucket "root".
ParentKey_Ignored(nd) == "root"

\* parent_key = node.parent or "root"
ParentKey(nd) == IF nd.parent = NoParent THEN "root" ELSE nd.parent

\* parent_groups[parent_key].append(node) on a defaultdict(list)
GroupAppend(pg, key, n) ==
    IF \E k \in 1..Len(pg) : pg[k].key = key
    THEN [k \in 1..Len(pg) |->
            IF pg[k].key = key THEN [pg[k] EXCEPT !.group = Append(@, n)] ELSE pg[k]]
    ELSE Append(pg, [key |-> key, group |-> <<n>>])

\* group.sort(key=lambda n: n.start_line): a stable sort.
RECURSIVE InsertByStartLine(_, _, _)
InsertByStartLine(ns, sorted, n) ==
    IF sorted = <<>> THEN <<n>>
    ELSE IF ns[Head(sorted)].start_line <= ns[n].start_line
         THEN <<Head(sorted)>> \o InsertByStartLine(ns, Tail(sorted), n)
         ELSE <<n>> \o sorted

RECURSIVE SortByStartLine(_, _)
SortByStartLine(ns, group) ==
    IF group = <<>> THEN <<>>
    ELSE InsertByStartLine(ns, SortByStartLine(ns, SubSeq(group, 1, Len(group) - 1)),
                           group[Len(group)])

\* node_size = self._get_node_size(node)
GetNodeSize(ns, n) == ns[n].size

\* Variant: the open group is closed before every node.
MustClose_Always(cg, cs, node_size) == cg # <<>>

\* if current_group and current_size + node_size > self.max_chunk_size
MustClose(cg, cs, node_size) == cg # <<>> /\ cs + node_size > max_chunk_size

\* parent_groups = defaultdict(list); result_groups = []
GroupLocals ==
    /\ parent_groups' = <<>>
    /\ gi' = 0
    /\ gj' = 0
    /\ result_groups' = <<>>
    /\ current_group' = <<>>
    /\ current_size' = 0

\* One iteration of the first loop: the node goes to its parent's list.
GroupBucket ==
    /\ UNCHANGED <<splitVars, hierVars, restVars>>
    /\ impl = "CAST"
    /\ pc = "loop"
    /\ \E ns \in Incoming(GroupLimit(max_chunk_size), StartLines) :
          /\ nodes' = ns
          /\ parent_groups' = GroupAppend(parent_groups, ParentKey(ns[i + 1]), i + 1)
    /\ i' = i + 1
    /\ UNCHANGED <<configVars, pc, run, first_result, chunkifyVars,
                   gi, gj, result_groups, current_group, current_size>>

\* The second loop takes the next parent group: sort it, open an empty group.
GroupSort ==
    /\ UNCHANGED <<splitVars, hierVars, restVars>>
    /\ impl = "CAST"
    /\ pc \in {"loop", "groups"}
    /\ i = Len(nodes)
    /\ gi < Len(parent_groups)
    /\ parent_groups' = [parent_groups EXCEPT
                            ![gi + 1].group = SortByStartLine(nodes, @)]
    /\ gi' = gi + 1
    /\ gj' = 0
    /\ current_group' = <<>>
    /\ current_size' = 0
    /\ pc' = "inner"
    /\ UNCHANGED <<configVars, nodes, i, run, first_result, chunkifyVars, result_groups>>

\* The body of "for node in group" on node n of the list ns: st holds
\* result_groups, current_group and current_size.
GroupStep(st, ns, n) ==
    LET node_size == GetNodeSize(ns, n)
        close     == MustClose(st.current_group, st.current_size, node_size)
    IN  [result_groups |->
            IF close
            THEN Append(st.result_groups, EmitChunk(st.current_group, st.current_size, 0))
            ELSE st.result_groups,
         current_group |-> Append(IF close THEN <<>> ELSE st.current_group, n),
         current_size  |-> (IF close THEN 0 ELSE st.current_size) + node_size]

\* Variant: the group left open after the loop is withheld.
GroupFlush_Withhold(st) == st.result_groups

\* if current_group: result_groups.append(current_group)
GroupFlush(st) ==
    IF st.current_group # <<>>
    THEN Append(st.result_groups, EmitChunk(st.current_group, st.current_size, 0))
    ELSE st.result_groups

\* One iteration of "for node in group".
GroupNode ==
    /\ UNCHANGED <<splitVars, hierVars, restVars>>
    /\ impl = "CAST"
    /\ pc = "inner"
    /\ gj < Len(parent_groups[gi].group)
    /\ LET st == GroupStep([result_groups |-> result_groups,
                            current_group |-> current_group,
                            current_size  |-> current_size],
                           nodes, parent_groups[gi].group[gj + 1])
       IN  /\ result_groups' = st.result_groups
           /\ current_group' = st.current_group
           /\ current_size' = st.current_size
    /\ gj' = gj + 1
    /\ UNCHANGED <<configVars, nodes, pc, i, run, first_result, chunkifyVars,
                   parent_groups, gi>>

\* "if current_group: result_groups.append(current_group)" after the inner loop.
GroupClose ==
    /\ UNCHANGED <<splitVars, hierVars, restVars>>
    /\ impl = "CAST"
    /\ pc = "inner"
    /\ gj = Len(parent_groups[gi].group)
    /\ result_groups' = GroupFlush([result_groups |-> result_groups,
                                    current_group |-> current_group,
                                    current_size  |-> current_size])
    /\ pc' = "groups"
    /\ UNCHANGED <<configVars, nodes, i, run, first_result, chunkifyVars,
                   parent_groups, gi, gj, current_group, current_size>>

\* return result_groups
GroupReturn ==
    /\ UNCHANGED <<splitVars, hierVars, restVars>>
    /\ impl = "CAST"
    /\ pc \in {"loop", "groups"}
    /\ i = Len(nodes)
    /\ gi = Len(parent_groups)
    /\ pc' = "done"
    /\ UNCHANGED <<configVars, nodes, i, run, first_result, chunkifyVars, groupVars>>

(***************************************************************************)
(* A second call of the chunker on the same node list and configuration.   *)
(***************************************************************************)
RunAgain ==
    /\ UNCHANGED <<splitVars, hierVars, restVars>>
    /\ pc = "done"
    /\ run = 1
    /\ run' = 2
    /\ first_result' = Emitted
    /\ i' = 0
    /\ pc' = "loop"
    /\ IF impl = "CChunker"
       THEN ChunkifyLocals /\ UNCHANGED groupVars
       ELSE GroupLocals /\ UNCHANGED chunkifyVars
    /\ UNCHANGED <<configVars, nodes>>

SplitterIdle ==
    /\ node = [type |-> "function", name |-> "fn", start_line |-> 1,
               doxygen |-> "None", comments |-> <<>>,
               has_children |-> FALSE, ends_with_newline |-> FALSE]
    /\ lines = <<>>
    /\ parts = <<>>
    /\ current_chunk = <<>>

HierarchyIdle ==
    /\ root_nodes = <<>>
    /\ children = <<>>
    /\ parent_node = <<>>
    /\ depth = <<>>

\* No chunk metadata has been rendered.
MetadataIdle ==
    /\ name = <<>>
    /\ context = <<>>

\* No comment is being looked for.
CommentIdle ==
    /\ targets = <<>>
    /\ blocks = <<>>
    /\ max_gap = 5
    /\ bi = 0
    /\ best = 0
    /\ gap = 0

RestIdle ==
    /\ respect_hierarchy = TRUE
    /\ MetadataIdle
    /\ CommentIdle

InitChunker ==
    /\ SplitterIdle
    /\ HierarchyIdle
    /\ RestIdle
    /\ impl \in {"CChunker", "CAST"}
    /\ max_chunk_size \in MaxChunkSizes
    /\ overlap_units \in IF impl = "CChunker" THEN 0..MaxOverlap ELSE {0}
    /\ nodes = <<>>
    /\ pc = "loop"
    /\ i = 0
    /\ run = 1
    /\ first_result = <<>>
    /\ chunks = <<>>
    /\ buffer = 0
    /\ node_buffer = <<>>
    /\ seeded = 0
    /\ parent_groups = <<>>
    /\ gi = 0
    /\ gj = 0
    /\ result_groups = <<>>
    /\ current_group = <<>>
    /\ current_size = 0

\* Buffered mode.
InitMerger == InitChunker /\ one_symbol_per_chunk = FALSE

\* One chunk per symbol.
InitOneSymbol == InitChunker /\ impl = "CChunker" /\ one_symbol_per_chunk = TRUE

NextOneSymbol == ChunkifyOneSymbol \/ ChunkifyOneReturn

SpecOneSymbol == InitOneSymbol /\ [][NextOneSymbol]_vars

NextMerger ==
    \/ ChunkifyConsume
    \/ ChunkifyReturn
    \/ GroupBucket
    \/ GroupSort
    \/ GroupNode
    \/ GroupClose
    \/ GroupReturn

SpecMerger == InitMerger /\ [][NextMerger]_vars

SpecTwice == InitMerger /\ [][NextMerger \/ RunAgain]_vars

\* The chunker is sequential code: a call that can take a step takes it.
\* Every configuration with a limit of up to MaxChunkSize bytes is started.
InitMergerLive == InitMerger /\ max_chunk_size \in 1..MaxChunkSize

SpecMergerLive == InitMergerLive /\ [][NextMerger]_vars /\ WF_vars(NextMerger)

(***************************************************************************)
(* CASTParser._split_large_node.  A line of node.code is the number of its *)
(* characters; a part keeps the numbers of its lines.                      *)
(***************************************************************************)
NoDoc == "None"

\* The lines a node may have: a few characters in the small world, 999
\* characters (1000 bytes with the newline) against max_chunk_size = 1000.
LineLensFor(max) == IF max = 1000 THEN {999} ELSE 0..MaxLineLen

\* Variant: the newline of the line is not counted.
LineSize_NoNewline(len) == len

\* line_size = len(line) + 1  # +1 for newline
LineSize(len) == len + 1

\* len("\n".join(current_chunk))
ChunkCodeLen(cc) ==
    IF cc = <<>> THEN 0
    ELSE SumSeq([k \in 1..Len(cc) |-> lines[cc[k]]]) + (Len(cc) - 1)

\* if current_chunk and current_size + line_size > self.max_chunk_size
MustCut(cc, cs, line_size) == cc # <<>> /\ cs + line_size > max_chunk_size

\* Variant: every part carries the documentation of the node.
PartDoxygen_Always(cs) == node.doxygen

\* doxygen=node.doxygen if not chunks else None
PartDoxygen(cs) == IF cs = <<>> THEN node.doxygen ELSE NoDoc

\* comments=node.comments if not chunks else []
PartComments(cs) == IF cs = <<>> THEN node.comments ELSE <<>>

\* f"{node.type}_part"
PartType(type) == type \o "_part"

\* chunk_node = CASTNode(type=f"{node.type}_part", code=chunk_code, ...)
MakePart(cs, cc) ==
    [type       |-> PartType(node.type),
     name       |-> node.name,
     lines      |-> cc,
     size       |-> ChunkCodeLen(cc),
     start_line |-> node.start_line,
     end_line   |-> node.start_line + Len(cc),
     doxygen    |-> PartDoxygen(cs),
     comments   |-> PartComments(cs)]

\* Variant: the children of the node are not looked at.
UsesChildren_Never(n) == FALSE

\* if node.children
UsesChildren(n) == n.has_children

\* node.code of a node with children: one or two lines of any length.
ContainerCodes(max) ==
    {<<l>> : l \in LineLensFor(max)}
    \cup {<<l1, l2>> : l1 \in LineLensFor(max), l2 \in LineLensFor(max)}

\* len(node.code) for the code lines cl
CodeLenOf(cl, ends_with_newline) ==
    IF cl = <<>> THEN 0
    ELSE SumSeq(cl) + (Len(cl) - 1) + (IF ends_with_newline THEN 1 ELSE 0)

\* if node.children: return [node]
\* The node comes back as it is, with the code it has.
SplitContainer ==
    /\ UNCHANGED <<hierVars, restVars>>
    /\ pc = "split"
    /\ UsesChildren(node)
    /\ \E code \in ContainerCodes(max_chunk_size) :
          /\ lines' = code
          /\ parts' = <<[type |-> node.type, name |-> node.name,
                         lines |-> [l \in 1..Len(code) |-> l],
                         size |-> CodeLenOf(code, node.ends_with_newline),
                         start_line |-> node.start_line,
                         end_line |-> node.start_line + Len(code) - 1,
                         doxygen |-> node.doxygen, comments |-> node.comments]>>
    /\ pc' = "done"
    /\ UNCHANGED <<configVars, current_size, mergerVars, node, current_chunk>>

\* One iteration of "for line in lines".
SplitLine ==
    /\ UNCHANGED <<hierVars, restVars>>
    /\ pc = "split"
    /\ ~UsesChildren(node)
    /\ Len(lines) < MaxLines
    /\ \E len \in LineLensFor(max_chunk_size) :
          LET line == Len(lines) + 1
              cut  == MustCut(current_chunk, current_size, LineSize(len))
          IN  /\ lines' = Append(lines, len)
              /\ parts' = IF cut THEN Append(parts, MakePart(parts, current_chunk))
                                 ELSE parts
              /\ current_chunk' = IF cut THEN <<line>> ELSE Append(current_chunk, line)
              /\ current_size' = IF cut THEN LineSize(len)
                                        ELSE current_size + LineSize(len)
    /\ UNCHANGED <<configVars, pc, mergerVars, node>>

\* "# Add the last chunk": the lines left in current_chunk become the last part.
SplitLast ==
    /\ UNCHANGED <<hierVars, restVars>>
    /\ pc = "split"
    /\ ~UsesChildren(node)
    /\ parts' = IF current_chunk # <<>> THEN Append(parts, MakePart(parts, current_chunk))
                                       ELSE parts
    /\ pc' = "done"
    /\ UNCHANGED <<configVars, current_size, mergerVars, node, lines, current_chunk>>

MergerIdle ==
    /\ impl = "CAST"
    /\ overlap_units = 0
    /\ one_symbol_per_chunk = FALSE
    /\ nodes = <<>>
    /\ i = 0
    /\ run = 1
    /\ first_result = <<>>
    /\ chunks = <<>>
    /\ buffer = 0
    /\ node_buffer = <<>>
    /\ seeded = 0
    /\ parent_groups = <<>>
    /\ gi = 0
    /\ gj = 0
    /\ result_groups = <<>>
    /\ current_group = <<>>

InitSplit ==
    /\ MergerIdle
    /\ HierarchyIdle
    /\ RestIdle
    /\ max_chunk_size \in (1..MaxChunkSize) \cup {1000}
    /\ node \in [type : {"function"}, name : {"fn"}, start_line : {1, 7}, doxygen : {NoDoc, "doc"},
                  comments : {<<>>, <<"note">>}, has_children : BOOLEAN,
                  ends_with_newline : BOOLEAN]
    /\ lines = <<>>
    /\ parts = <<>>
    /\ current_chunk = <<>>
    /\ current_size = 0
    /\ pc = "split"

NextSplit == SplitContainer \/ SplitLine \/ SplitLast

SpecSplit == InitSplit /\ [][NextSplit]_vars

(***************************************************************************)
(* _group_related_nodes as a function of a node list, for its callers.     *)
(***************************************************************************)
RECURSIVE BucketFold(_, _, _)
BucketFold(ns, idxs, pg) ==
    IF idxs = <<>> THEN pg
    ELSE BucketFold(ns, Tail(idxs), GroupAppend(pg, ParentKey(ns[Head(idxs)]), Head(idxs)))

RECURSIVE InnerFold(_, _, _)
InnerFold(st, ns, group) ==
    IF group = <<>> THEN st
    ELSE InnerFold(GroupStep(st, ns, Head(group)), ns, Tail(group))

RECURSIVE GroupsFold(_, _, _)
GroupsFold(ns, pg, rg) ==
    IF pg = <<>> THEN rg
    ELSE GroupsFold(ns, Tail(pg),
                    GroupFlush(InnerFold([result_groups |-> rg, current_group |-> <<>>,
                                          current_size |-> 0],
                                         ns, SortByStartLine(ns, Head(pg).group))))

GroupRelatedNodes(ns, idxs) == GroupsFold(ns, BucketFold(ns, idxs, <<>>), <<>>)

(***************************************************************************)
(* CASTParser._build_hierarchy.  A candidate carries its span and the rank *)
(* NODE_HIERARCHY gives its type (containers have the low ranks).          *)
(***************************************************************************)
Candidates ==
    {c \in [start_line : 1..MaxLine, end_line : 1..MaxLine, rank : 0..2,
            size : {1}, parent : {NoParent}] : c.start_line <= c.end_line}

CandidateLists == UNION {[1..n -> Candidates] : n \in 1..MaxCandidates}

\* key=lambda n: (n.start_line, NODE_HIERARCHY.get(n.type, 99))
SortKeyLeq(a, b) ==
    \/ a.start_line < b.start_line
    \/ a.start_line = b.start_line /\ a.rank <= b.rank

\* nodes.sort(key=...): a stable sort.
RECURSIVE InsertByKey(_, _)
InsertByKey(sorted, c) ==
    IF sorted = <<>> THEN <<c>>
    ELSE IF SortKeyLeq(Head(sorted), c)
         THEN <<Head(sorted)>> \o InsertByKey(Tail(sorted), c)
         ELSE <<c>> \o sorted

RECURSIVE SortNodes(_)
SortNodes(ns) ==
    IF ns = <<>> THEN <<>>
    ELSE InsertByKey(SortNodes(SubSeq(ns, 1, Len(ns) - 1)), ns[Len(ns)])

\* The test "parent contains this node" of the inner loop.
ContainsNode(ns, p, n) ==
    /\ ns[p].start_line < ns[n].start_line
    /\ ns[p].end_line >= ns[n].end_line
    /\ ns[p].rank < ns[n].rank

\* "Find the closest parent": p lies inside the parent the node has now.
CloserParent(ns, p, cur) ==
    /\ ns[p].start_line > ns[cur].start_line
    /\ ns[p].end_line <= ns[cur].end_line

\* Variant: the child's depth is left as it was.
AddChild_KeepDepth(st, p, n) ==
    [st EXCEPT !.children[p] = Append(@, n),
               !.parent_node[n] = p,
               !.parent_found = TRUE]

\* CASTNode.add_child: parent p gets child n.
AddChild(st, p, n) ==
    [st EXCEPT !.children[p] = Append(@, n),
               !.parent_node[n] = p,
               !.depth[n] = st.depth[p] + 1,
               !.parent_found = TRUE]

\* The inner loop "for parent in nodes" for node n, from candidate p on.
\* "if parent == node: continue" skips the node itself (a candidate equal to
\* it in every field starts on the same line and never contains it).
RECURSIVE FindParents(_, _, _, _)
FindParents(ns, n, p, st) ==
    IF p > Len(ns) THEN st
    ELSE FindParents(ns, n, p + 1,
            IF /\ p # n
               /\ ContainsNode(ns, p, n)
               /\ (~st.parent_found \/ CloserParent(ns, p, st.parent_node[n]))
            THEN AddChild(st, p, n)
            ELSE st)

\* nodes.sort(...); root_nodes = []
BuildSort ==
    /\ UNCHANGED <<splitVars, restVars>>
    /\ pc = "sort"
    /\ nodes' = SortNodes(nodes)
    /\ root_nodes' = <<>>
    /\ pc' = "place"
    /\ UNCHANGED <<configVars, current_size, i, run, first_result, chunkifyVars,
                   groupVars0, children, parent_node, depth>>

\* One iteration of "for node in nodes".
BuildPlace ==
    /\ UNCHANGED <<splitVars, restVars>>
    /\ pc = "place"
    /\ i < Len(nodes)
    /\ LET n  == i + 1
           st == FindParents(nodes, n, 1,
                             [parent_found |-> FALSE, children |-> children,
                              parent_node |-> parent_node, depth |-> depth])
       IN  /\ children' = st.children
           /\ parent_node' = st.parent_node
           /\ depth' = st.depth
           /\ root_nodes' = IF st.parent_found THEN root_nodes ELSE Append(root_nodes, n)
    /\ i' = i + 1
    /\ UNCHANGED <<configVars, current_size, nodes, pc, run, first_result, chunkifyVars,
                   groupVars0>>

\* return root_nodes
BuildReturn ==
    /\ UNCHANGED <<splitVars, restVars>>
    /\ pc = "place"
    /\ i = Len(nodes)
    /\ pc' = "built"
    /\ UNCHANGED <<configVars, current_size, nodes, i, run, first_result, chunkifyVars,
                   groupVars0, hierVars>>

\* The code keeps no record of dropped, demoted or flagged candidates.
Anomalies == {}

\* The sibling groups of the forest: the children of every node, then the roots.
SiblingGroups ==
    SelectSeq([n \in 1..Len(nodes) |-> children[n]] \o <<root_nodes>>,
              LAMBDA g : g # <<>>)

\* The Orchestrator: the Merger runs on every sibling group of the forest and
\* the chunks of all groups are returned.
Orchestrate ==
    /\ UNCHANGED <<splitVars, restVars>>
    /\ pc = "built"
    /\ result_groups' =
          Flatten([k \in 1..Len(SiblingGroups) |->
                      GroupRelatedNodes(nodes, SiblingGroups[k])])
    /\ pc' = "emitted"
    /\ UNCHANGED <<configVars, current_size, nodes, i, run, first_result, chunkifyVars,
                   parent_groups, gi, gj, current_group, hierVars>>

\* The builder is about to run on one of the candidate lists.
ForestStart(lists, start) ==
    /\ SplitterIdle
    /\ impl = "CAST"
    /\ one_symbol_per_chunk = FALSE
    /\ max_chunk_size \in {1, 2}
    /\ overlap_units = 0
    /\ nodes \in lists
    /\ pc = start
    /\ i = 0
    /\ run = 1
    /\ first_result = <<>>
    /\ chunks = <<>>
    /\ buffer = 0
    /\ node_buffer = <<>>
    /\ seeded = 0
    /\ parent_groups = <<>>
    /\ gi = 0
    /\ gj = 0
    /\ result_groups = <<>>
    /\ current_group = <<>>
    /\ current_size = 0
    /\ root_nodes = <<>>
    /\ children = [n \in 1..Len(nodes) |-> <<>>]
    /\ parent_node = [n \in 1..Len(nodes) |-> 0]
    /\ depth = [n \in 1..Len(nodes) |-> 0]

InitForest == ForestStart(CandidateLists, "sort")

InitHierarchy == InitForest /\ RestIdle

\* The builder alone, on the lists nodes.sort(key=...) can leave: the caller
\* hands over one candidate after the other in ascending key, candidates of
\* equal key in any order, and then calls the builder.
InitBuild ==
    /\ ForestStart({<<>>}, "collect")
    /\ max_chunk_size = 1
    /\ RestIdle

\* The next candidate of the list: nodes is the argument of _build_hierarchy.
Extract ==
    /\ UNCHANGED <<splitVars, restVars>>
    /\ pc = "collect"
    /\ Len(nodes) < MaxCandidates
    /\ \E c \in Candidates :
          /\ IF nodes = <<>> THEN TRUE ELSE SortKeyLeq(nodes[Len(nodes)], c)
          /\ nodes' = Append(nodes, c)
    /\ children' = Append(children, <<>>)
    /\ parent_node' = Append(parent_node, 0)
    /\ depth' = Append(depth, 0)
    /\ UNCHANGED <<configVars, current_size, pc, i, run, first_result, chunkifyVars,
                   groupVars0, root_nodes>>

\* self._build_hierarchy(nodes) is called.
BuildCall ==
    /\ UNCHANGED <<splitVars, restVars>>
    /\ pc = "collect"
    /\ nodes # <<>>
    /\ pc' = "sort"
    /\ UNCHANGED <<configVars, current_size, nodes, i, run, first_result, chunkifyVars,
                   groupVars0, hierVars>>

NextBuild == Extract \/ BuildCall \/ BuildSort \/ BuildPlace \/ BuildReturn

SpecBuild == InitBuild /\ [][NextBuild]_vars

\* The node the Splitter returned as part k, as the Merger reads it.
PartNode(k) == [start_line |-> parts[k].start_line, size |-> parts[k].size,
                parent |-> NoParent]

\* The sibling after the split node.
NextSibling(sz) == [start_line |-> node.start_line + Len(lines), size |-> sz,
                    parent |-> NoParent]

\* The Orchestrator after the Splitter: the parts take the place of the node in
\* its sibling group, here the node and the sibling after it, and the Merger
\* runs on the group.
MergeParts ==
    /\ UNCHANGED <<splitVars, hierVars, restVars>>
    /\ pc = "done"
    /\ \E sz \in 1..MaxSize :
          LET ns == [k \in 1..Len(parts) |-> PartNode(k)] \o <<NextSibling(sz)>>
          IN  /\ nodes' = ns
              /\ result_groups' = GroupRelatedNodes(ns, [k \in 1..Len(ns) |-> k])
    /\ pc' = "merged"
    /\ UNCHANGED <<configVars, current_size, i, run, first_result, chunkifyVars,
                   parent_groups, gi, gj, current_group>>

NextSplitMerge == NextSplit \/ MergeParts

SpecSplitMerge == InitSplit /\ [][NextSplitMerge]_vars

NextHierarchy == BuildSort \/ BuildPlace \/ BuildReturn \/ Orchestrate

SpecHierarchy == InitHierarchy /\ [][NextHierarchy]_vars

(***************************************************************************)
(* CASTNode.get_full_context and the "context" entry of the chunk          *)
(* metadata.  NODE_HIERARCHY maps a type to its rank, so two nodes of one  *)
(* type have one rank: the types are named after the ranks.                *)
(***************************************************************************)
NodeTypes == <<"struct", "function", "declaration">>

\* node.type
TypeOf(n) == NodeTypes[nodes[n].rank + 1]

\* node.name as _extract_name found it; "" stands for None.
Names == {"", "Outer", "Inner"}

\* f"{self.type}:{self.name}" if self.name else self.type
Entry(nm, n) == IF nm[n] # "" THEN TypeOf(n) \o ":" \o nm[n] ELSE TypeOf(n)

\* filter(None, context)
FilterNone(ctx) == SelectSeq(ctx, LAMBDA e : e # "")

\* "/".join(...)
RECURSIVE JoinSlash(_)
JoinSlash(ctx) ==
    IF ctx = <<>> THEN ""
    ELSE IF Len(ctx) = 1 THEN ctx[1]
    ELSE ctx[1] \o "/" \o JoinSlash(Tail(ctx))

\* context = []; context.append(parent's context); context.append(own entry)
ContextList(parent_context, entry) == parent_context \o <<entry>>

\* CASTNode.get_full_context of node n, the names being nm.
RECURSIVE GetFullContext(_, _)
GetFullContext(nm, n) ==
    JoinSlash(FilterNone(ContextList(
        IF parent_node[n] # 0 THEN <<GetFullContext(nm, parent_node[n])>> ELSE <<>>,
        Entry(nm, n))))

\* "context": n.get_full_context() if self.respect_hierarchy else None, for
\* every node of the emitted chunks.
EmitMetadata ==
    /\ pc = "emitted"
    /\ \E nm \in [1..Len(nodes) -> Names] :
          /\ name' = nm
          /\ context' = [n \in 1..Len(nodes) |->
                            IF respect_hierarchy THEN GetFullContext(nm, n) ELSE "None"]
    /\ pc' = "tagged"
    /\ UNCHANGED <<configVars, current_size, mergerVars, splitVars, hierVars,
                   respect_hierarchy, commentVars>>

InitContext ==
    /\ InitForest
    /\ respect_hierarchy \in BOOLEAN
    /\ MetadataIdle
    /\ CommentIdle

NextContext == NextHierarchy \/ EmitMetadata

SpecContext == InitContext /\ [][NextContext]_vars

(***************************************************************************)
(* _find_nearest_comment and the visit of EmbeddedCParser.parse_source     *)
(* that calls it.  A position is a line and a place in the line (0 early,  *)
(* 1 late); the code compares lines only.                                  *)
(***************************************************************************)
Positions == [line : 1..MaxLine, col : {0, 1}]

\* Position a is before position b in the file.
PosBefore(a, b) == a.line < b.line \/ (a.line = b.line /\ a.col < b.col)

\* regex.finditer(src): the matches in file order, by the position m.end().
BlockLists ==
    {bs \in UNION {[1..n -> Positions] : n \in 0..MaxBlocks} :
        \A k \in 1..(Len(bs) - 1) : PosBefore(bs[k], bs[k + 1])}

\* The nodes of TARGET_TYPES in the order visit() reaches them, by the
\* position of node.start_byte: a child starts where its parent does or later.
TargetLists ==
    {ts \in UNION {[1..n -> Positions] : n \in 1..2} :
        \A k \in 1..(Len(ts) - 1) : ~PosBefore(ts[k + 1], ts[k])}

\* end_ln = _byte_to_line(b1, offs)
EndLine(b) == blocks[b].line

\* start_line = _byte_to_line(node.start_byte, line_offsets) of the node in work
StartLine == targets[Len(nodes) + 1].line

\* Variant: a block below the start line is taken as well.
Nearer_NoFloor(start_line, end_ln, g) == (start_line - end_ln) < g

\* if 0 <= (start_line - end_ln) < gap
Nearer(start_line, end_ln, g) == 0 <= (start_line - end_ln) /\ (start_line - end_ln) < g

commentFrame == <<configVars, current_size, i, run, first_result, chunkifyVars,
                  groupVars0, splitVars, hierVars, metaVars, targets, blocks, max_gap>>

\* doxygen = _find_nearest_comment(source, start_line, DOXYGEN_COMMENT), up to
\* "best, gap = None, max_gap + 1".
FindCall ==
    /\ pc = "visit"
    /\ Len(nodes) < Len(targets)
    /\ bi' = 0
    /\ best' = 0
    /\ gap' = max_gap + 1
    /\ pc' = "scan"
    /\ UNCHANGED <<commentFrame, nodes>>

\* One iteration of "for b0, b1, raw in blocks".
FindStep ==
    /\ pc = "scan"
    /\ bi < Len(blocks)
    /\ LET b == bi + 1
       IN  /\ bi' = b
           /\ IF Nearer(StartLine, EndLine(b), gap)
              THEN best' = b /\ gap' = StartLine - EndLine(b)
              ELSE UNCHANGED <<best, gap>>
    /\ UNCHANGED <<commentFrame, nodes, pc>>

\* The loop is over: the comment is returned and nodes.append(ASTNode(...))
\* stores it as the node's doxygen.
FindReturn ==
    /\ pc = "scan"
    /\ bi = Len(blocks)
    /\ nodes' = Append(nodes, [start |-> targets[Len(nodes) + 1], doxygen |-> best])
    /\ pc' = "visit"
    /\ UNCHANGED <<commentFrame, bi, best, gap>>

\* visit(root) is over: return nodes.
ParseReturn ==
    /\ pc = "visit"
    /\ Len(nodes) = Len(targets)
    /\ pc' = "parsed"
    /\ UNCHANGED <<commentFrame, nodes, bi, best, gap>>

InitComment ==
    /\ MergerIdle
    /\ SplitterIdle
    /\ HierarchyIdle
    /\ respect_hierarchy = TRUE
    /\ MetadataIdle
    /\ max_chunk_size = 1
    /\ current_size = 0
    /\ targets \in TargetLists
    /\ blocks \in BlockLists
    /\ max_gap \in 0..MaxGap
    /\ bi = 0
    /\ best = 0
    /\ gap = 0
    /\ pc = "visit"

NextComment == FindCall \/ FindStep \/ FindReturn \/ ParseReturn

SpecComment == InitComment /\ [][NextComment]_vars

(***************************************************************************)
(* Vocabulary of the properties of the Merger.                             *)
(***************************************************************************)
\* "conditional_context": [n.parent for n in nodes if n.parent]
ConditionalContext(chunk) ==
    LET ps == [k \in 1..Len(chunk.nodes) |-> nodes[chunk.nodes[k]].parent]
    IN  SelectSeq(ps, LAMBDA p : p # NoParent)

\* The open chunk, while the loop that fills it runs.
OpenChunks ==
    IF impl = "CChunker"
    THEN IF pc = "loop" /\ node_buffer # <<>>
         THEN <<EmitChunk(node_buffer, buffer, seeded)>> ELSE <<>>
    ELSE IF pc = "inner" /\ current_group # <<>>
         THEN <<EmitChunk(current_group, current_size, 0)>> ELSE <<>>

AllChunks == Emitted \o OpenChunks

\* The sibling group of a chunk: chunkify has one group, the whole node list;
\* _group_related_nodes has one group per conditional context.
GroupOf(chunk) == IF impl = "CChunker" THEN "all" ELSE ParentKey(nodes[chunk.nodes[1]])

\* The group that can still get chunks.
OpenGroup ==
    IF impl = "CChunker"
    THEN IF pc = "loop" THEN "all" ELSE "closed"
    ELSE IF pc = "inner" THEN parent_groups[gi].key ELSE "closed"

\* Chunk number j of the emitted list is the last chunk of its group.
IsLastOfGroup(j) ==
    IF j < Len(Emitted) THEN GroupOf(Emitted[j]) # GroupOf(Emitted[j + 1])
    ELSE GroupOf(Emitted[j]) # OpenGroup

\* The units of a chunk that were not carried over from the chunk before it.
NewUnits(chunk) == SubSeq(chunk.nodes, chunk.seeded + 1, Len(chunk.nodes))

\* The byte length of the text of units: chunkify joins the contents with
\* "\n\n", _group_related_nodes adds up the node sizes.
RenderedLen(units) ==
    IF units = <<>> THEN 0
    ELSE SumSeq([k \in 1..Len(units) |-> nodes[units[k]].size])
         + (IF impl = "CChunker" THEN 2 * (Len(units) - 1) ELSE 0)

NodeLists(cs) == [k \in 1..Len(cs) |-> cs[k].nodes]

Sizes(ns) == [k \in 1..Len(ns) |-> ns[k].size]

Parents(ns) == [k \in 1..Len(ns) |-> ns[k].parent]

\* The node list is in document order, as three functions fn1, fn2, fn3 are.
InDocumentOrder == \A k \in 1..(Len(nodes) - 1) : nodes[k].start_line <= nodes[k + 1].start_line

\* Node a comes before node b in the document.
Before(a, b) ==
    \/ nodes[a].start_line < nodes[b].start_line
    \/ nodes[a].start_line = nodes[b].start_line /\ a < b

(***************************************************************************)
(* C1. Size bound: every emitted chunk other than the last chunk of its    *)
(* group and other than the oversize-flagged chunks has a rendered text of *)
(* at most max_chunk_size bytes, separators and seeded units included.     *)
(* This is the claim as stated; the chunkers break it.                     *)
(***************************************************************************)
SizeBound ==
    \A j \in 1..Len(Emitted) :
        \/ IsLastOfGroup(j)
        \/ Oversize(Emitted[j])
        \/ Emitted[j].size <= max_chunk_size

(***************************************************************************)
(* C2. Non-overlap: when the chunker has returned, the units of the chunks *)
(* of one sibling group, seeded duplicates left out and taken in emission  *)
(* order, are the siblings of the group, each once, in document order.     *)
(***************************************************************************)
GroupKeys == {GroupOf(Emitted[j]) : j \in 1..Len(Emitted)}

UnitsOfGroup(g) ==
    Flatten([j \in 1..Len(Emitted) |->
                IF GroupOf(Emitted[j]) = g THEN NewUnits(Emitted[j]) ELSE <<>>])

SiblingsOfGroup(g) ==
    {n \in 1..Len(nodes) : impl = "CChunker" \/ ParentKey(nodes[n]) = g}

NonOverlap ==
    pc = "done" =>
        /\ \A n \in 1..Len(nodes) : \E g \in GroupKeys : n \in SiblingsOfGroup(g)
        /\ \A g \in GroupKeys :
              LET cat == UnitsOfGroup(g)
              IN  /\ Range(cat) = SiblingsOfGroup(g)
                  /\ Len(cat) = Cardinality(SiblingsOfGroup(g))
                  /\ \A a, b \in 1..Len(cat) : a < b => Before(cat[a], cat[b])

\* chunkify has returned chunks of which one starts with carried-over units.
NonOverlapWitness ==
    /\ pc = "done"
    /\ impl = "CChunker"
    /\ overlap_units > 0
    /\ Len(nodes) >= 3
    /\ \E j \in 1..Len(chunks) : chunks[j].seeded > 0

GreedyMerge ==
    overlap_units = 0 =>
        /\ \A j \in 1..Len(AllChunks) :
              LET units == AllChunks[j].nodes
              IN  /\ units # <<>>
                  \* a sibling that joined the open chunk fitted
                  /\ \A k \in 2..Len(units) :
                        RenderedLen(SubSeq(units, 1, k - 1)) + nodes[units[k]].size
                            <= max_chunk_size
                  \* the chunk was closed before a sibling that did not fit
                  /\ (j < Len(AllChunks) /\ GroupOf(AllChunks[j]) = GroupOf(AllChunks[j + 1]))
                        => RenderedLen(units) + nodes[AllChunks[j + 1].nodes[1]].size
                               > max_chunk_size
        /\ (pc = "done" /\ max_chunk_size = 250 /\ Sizes(nodes) = <<100, 100, 100>>
            /\ Cardinality(Range(Parents(nodes))) = 1 /\ InDocumentOrder)
              => NodeLists(Emitted) = << <<1, 2>>, <<3>> >>

GreedyMergeWitness ==
    /\ pc = "done"
    /\ overlap_units = 0
    /\ max_chunk_size = 250
    /\ Sizes(nodes) = <<100, 100, 100>>
    /\ InDocumentOrder
    /\ NodeLists(Emitted) = << <<1, 2>>, <<3>> >>

(***************************************************************************)
(* C7. Overlap seeding: with overlap_units = k > 0 every chunk after the   *)
(* first starts with the last k units of the chunk before it (all of them  *)
(* when it has fewer), in their order, followed by the next sibling.  Four *)
(* 100-byte siblings against 250 with k = 1 give [1,2], [2,3], [3,4].      *)
(***************************************************************************)
OverlapSeeding ==
    (impl = "CChunker" /\ overlap_units > 0) =>
        /\ \A j \in 2..Len(AllChunks) :
              LET prev == AllChunks[j - 1].nodes
                  cur  == AllChunks[j].nodes
                  m    == IF Len(prev) < overlap_units THEN Len(prev) ELSE overlap_units
              IN  /\ Len(cur) >= m + 1
                  /\ \A t \in 1..m : cur[t] = prev[Len(prev) - m + t]
                  /\ cur[m + 1] = prev[Len(prev)] + 1
        /\ (pc = "done" /\ max_chunk_size = 250 /\ overlap_units = 1
            /\ Sizes(nodes) = <<100, 100, 100, 100>>)
              => NodeLists(chunks) = << <<1, 2>>, <<2, 3>>, <<3, 4>> >>

OverlapSeedingWitness ==
    /\ pc = "done"
    /\ impl = "CChunker"
    /\ max_chunk_size = 250
    /\ overlap_units = 1
    /\ Sizes(nodes) = <<100, 100, 100, 100>>
    /\ NodeLists(chunks) = << <<1, 2>>, <<2, 3>>, <<3, 4>> >>

(***************************************************************************)
(* C8. Conditional-context boundary, as stated: no chunk of either chunker *)
(* holds two nodes of different conditional contexts.  chunkify breaks it. *)
(***************************************************************************)
OneContext(chunk) ==
    \A a, b \in Range(chunk.nodes) : nodes[a].parent = nodes[b].parent

ConditionalBoundary == \A j \in 1..Len(AllChunks) : OneContext(AllChunks[j])

(***************************************************************************)
(* C8, amended: no chunk of _group_related_nodes holds two nodes whose     *)
(* keys "node.parent or 'root'" differ; two 50-byte nodes under FEATURE_A  *)
(* and FEATURE_B against 1000 give two chunks, each tagged with its own    *)
(* context.                                                                *)
(***************************************************************************)
OneParentKey(chunk) ==
    \A a, b \in Range(chunk.nodes) : ParentKey(nodes[a]) = ParentKey(nodes[b])

ConditionalBoundaryCAST ==
    impl = "CAST" =>
        /\ \A j \in 1..Len(AllChunks) : OneParentKey(AllChunks[j])
        /\ (pc = "done" /\ max_chunk_size = 1000
            /\ Parents(nodes) = <<"FEATURE_A", "FEATURE_B">>)
              => /\ NodeLists(result_groups) = << <<1>>, <<2>> >>
                 /\ ConditionalContext(result_groups[1]) = <<"FEATURE_A">>
                 /\ ConditionalContext(result_groups[2]) = <<"FEATURE_B">>

ConditionalBoundaryWitness ==
    /\ impl = "CAST"
    /\ pc = "done"
    /\ max_chunk_size = 1000
    /\ Sizes(nodes) = <<50, 50>>
    /\ Parents(nodes) = <<"FEATURE_A", "FEATURE_B">>
    /\ Len(result_groups) = 2

(***************************************************************************)
(* Vocabulary of the properties of the Splitter.                           *)
(***************************************************************************)
\* len(node.code): the lines, a newline between two lines, and the final
\* newline when the code ends with one (splitlines() drops it).
CodeLen ==
    IF lines = <<>> THEN 0
    ELSE SumSeq(lines) + (Len(lines) - 1) + (IF node.ends_with_newline THEN 1 ELSE 0)

\* The Splitter's case: a childless node, larger than max_chunk_size, whose
\* every line fits with its newline.
SplitCase ==
    /\ ~node.has_children
    /\ CodeLen > max_chunk_size
    /\ \A l \in 1..Len(lines) : lines[l] + 1 <= max_chunk_size

\* A division of the lines into contiguous parts: the set of the lines after
\* which it cuts.  Lines a..b are one of its parts:
IsRun(cuts, a, b) ==
    /\ a <= b
    /\ (a = 1 \/ (a - 1) \in cuts)
    /\ (b = Len(lines) \/ b \in cuts)
    /\ \A c \in a..(b - 1) : c \notin cuts

\* The text of lines a..b, joined with newlines.
TextLen(a, b) == SumSeq(SubSeq(lines, a, b)) + (b - a)

\* Every part of the division has a text of at most limit bytes.
Fits(cuts, limit) ==
    \A a, b \in 1..Len(lines) : IsRun(cuts, a, b) => TextLen(a, b) <= limit

\* Some division into fewer parts than the Splitter made fits the limit.
FewerPartsFit(limit) ==
    \E cuts \in SUBSET (1..(Len(lines) - 1)) :
        Cardinality(cuts) + 1 < Len(parts) /\ Fits(cuts, limit)

PartLines == [k \in 1..Len(parts) |-> parts[k].lines]

FiveLines == <<999, 999, 999, 999, 999>>

(***************************************************************************)
(* C9. Splitter bound and minimality, as stated: in the Splitter's case    *)
(* the parts are runs of whole lines, each part has at most max_chunk_size *)
(* bytes, and no division of the lines into fewer contiguous parts of at   *)
(* most max_chunk_size bytes exists.  The code cuts one byte early.        *)
(***************************************************************************)
SplitMinimal ==
    (pc = "done" /\ SplitCase) =>
        /\ Flatten(PartLines) = [l \in 1..Len(lines) |-> l]
        /\ \A k \in 1..Len(parts) : parts[k].size <= max_chunk_size
        /\ ~FewerPartsFit(max_chunk_size)

(***************************************************************************)
(* C9, amended: in the Splitter's case the parts are runs of whole lines,  *)
(* each part has at most max_chunk_size bytes, and no division into fewer  *)
(* contiguous parts exists in which every part, each of its lines counted  *)
(* with its newline, has at most max_chunk_size bytes.  Five lines of 1000 *)
(* bytes (5000 bytes) against 1000 give five parts.                        *)
(***************************************************************************)
SplitMinimalWithNewlines ==
    (pc = "done" /\ SplitCase) =>
        /\ Flatten(PartLines) = [l \in 1..Len(lines) |-> l]
        /\ \A k \in 1..Len(parts) : parts[k].lines # <<>> /\ parts[k].size <= max_chunk_size
        /\ ~FewerPartsFit(max_chunk_size - 1)
        /\ (max_chunk_size = 1000 /\ lines = FiveLines /\ node.ends_with_newline)
              => PartLines = << <<1>>, <<2>>, <<3>>, <<4>>, <<5>> >>

SplitMinimalWitness ==
    /\ pc = "done"
    /\ SplitCase
    /\ max_chunk_size = 1000
    /\ lines = FiveLines
    /\ node.ends_with_newline
    /\ CodeLen = 5000
    /\ Len(parts) = 5

(***************************************************************************)
(* C10. Documentation on the first part only: when the node is divided     *)
(* into two or more parts, the first part carries the node's doc_comment   *)
(* and plain_comments, every later part carries neither.                   *)
(***************************************************************************)
DocOnFirstPartOnly ==
    (Len(parts) >= 2) =>
        /\ parts[1].doxygen = node.doxygen
        /\ parts[1].comments = node.comments
        /\ \A k \in 2..Len(parts) :
              parts[k].doxygen = NoDoc /\ parts[k].comments = <<>>

DocOnFirstPartWitness ==
    /\ pc = "done"
    /\ Len(parts) >= 3
    /\ node.doxygen = "doc"
    /\ node.comments # <<>>
    /\ parts[1].doxygen = "doc"

(***************************************************************************)
(* Vocabulary of the properties of the forest.                             *)
(***************************************************************************)
\* How many times x occurs in the sequence s.
Occurrences(s, x) == Cardinality({k \in 1..Len(s) : s[k] = x})

\* The contributing nodes of all emitted chunks, in emission order.
Contributing == Flatten([k \in 1..Len(result_groups) |-> result_groups[k].nodes])

SpanInside(c, p) ==
    /\ nodes[p].start_line <= nodes[c].start_line
    /\ nodes[c].end_line <= nodes[p].end_line

SpansOverlap(a, b) ==
    /\ nodes[a].start_line <= nodes[b].end_line
    /\ nodes[b].start_line <= nodes[a].end_line

\* The sibling lists of the forest: the children of every node and the roots.
SiblingLists == {children[n] : n \in 1..Len(nodes)} \cup {root_nodes}

\* Every two candidates are nested in one another or apart, and no two start
\* on the same line: a list every reading of the builder's contract accepts.
ProperlyNested ==
    \A a, b \in 1..Len(nodes) :
        a # b => /\ nodes[a].start_line # nodes[b].start_line
                 /\ \/ ~SpansOverlap(a, b)
                    \/ SpanInside(a, b) /\ nodes[b].rank < nodes[a].rank
                    \/ SpanInside(b, a) /\ nodes[a].rank < nodes[b].rank

\* C3: when the pipeline has finished, every candidate is a contributing node
\* of the emitted chunks or the subject of an anomaly record, exactly once in
\* all; candidates that became children of a container are not exempt.
Coverage ==
    pc = "emitted" =>
        \A n \in 1..Len(nodes) :
            Occurrences(Contributing, n) + (IF n \in Anomalies THEN 1 ELSE 0) = 1

\* C4: in the forest built from any candidate list, every child's span lies
\* inside its parent's span and no two siblings overlap, the roots being the
\* children of the file's synthetic root.
Containment ==
    pc \in {"built", "emitted"} =>
        /\ \A p \in 1..Len(nodes) : \A k \in 1..Len(children[p]) :
              SpanInside(children[p][k], p)
        /\ \A sl \in SiblingLists : \A j, k \in 1..Len(sl) :
              j # k => ~SpansOverlap(sl[j], sl[k])

(***************************************************************************)
(* Vocabulary of the properties of the context path.                       *)
(***************************************************************************)
\* Node n and its ancestors by parent reference, the root-most first.
RECURSIVE AncestorChain(_)
AncestorChain(n) ==
    IF parent_node[n] = 0 THEN <<n>> ELSE AncestorChain(parent_node[n]) \o <<n>>

\* kind[:name] of every node of a chain.
Entries(chain) == [k \in 1..Len(chain) |-> Entry(name, chain[k])]

\* Node b lies inside node a and starts after it.
NestedIn(b, a) ==
    /\ nodes[a].start_line < nodes[b].start_line
    /\ nodes[b].end_line <= nodes[a].end_line

\* The two candidates of the file are a struct Outer and a struct Inner inside it.
OuterInner(a, b) ==
    /\ Len(nodes) = 2
    /\ TypeOf(a) = "struct" /\ name[a] = "Outer"
    /\ TypeOf(b) = "struct" /\ name[b] = "Inner"
    /\ NestedIn(b, a)
    /\ nodes[a].size + nodes[b].size <= max_chunk_size

\* The context paths as the claim gives them.
PathsOfChains ==
    \A n \in Range(Contributing) : context[n] = JoinSlash(Entries(AncestorChain(n)))

\* C11: the context path of every node of a chunk is kind[:name] of the node
\* and of all its ancestors, joined with "/" from the root-most ancestor to the
\* node; a struct Inner nested in a struct Outer has the path
\* struct:Outer/struct:Inner and is in one chunk with Outer when both fit.
ContextPath ==
    (pc = "tagged" /\ respect_hierarchy) =>
        /\ PathsOfChains
        /\ \A a, b \in 1..Len(nodes) :
              OuterInner(a, b) =>
                  /\ context[b] = "struct:Outer/struct:Inner"
                  /\ \E k \in 1..Len(result_groups) :
                        {a, b} \subseteq Range(result_groups[k].nodes)

(***************************************************************************)
(* Vocabulary of the properties of the Comment Associator.                 *)
(***************************************************************************)
\* The loop over the blocks has finished for the node in work.
LoopOver == pc = "scan" /\ bi = Len(blocks)

\* Node start line minus comment end line.
GapOf(b) == StartLine - EndLine(b)

\* The blocks that end before the node in work starts, at most max_gap lines
\* above it.
EndBefore ==
    {b \in 1..Len(blocks) :
        ~PosBefore(targets[Len(nodes) + 1], blocks[b]) /\ GapOf(b) <= max_gap}

\* The blocks whose end line is the node's start line or at most max_gap
\* lines above it.
EndWithin == {b \in 1..Len(blocks) : 0 <= GapOf(b) /\ GapOf(b) <= max_gap}

\* best is a block of q of the smallest gap, and unset when q is empty.
NearestOf(q) ==
    IF q = {} THEN best = 0
    ELSE best \in q /\ \A b \in q : GapOf(best) <= GapOf(b)

DocCommentOnce ==
    pc = "parsed" =>
        \A a, b \in 1..Len(nodes) :
            (a # b /\ nodes[a].doxygen # 0) => nodes[a].doxygen # nodes[b].doxygen

(***************************************************************************)
(* Vocabulary of the properties about min_chunk_size.                      *)
(***************************************************************************)
\* CASTChunker(max_chunk_size=..., min_chunk_size=...): the floors a
\* configuration may set, 0 < min_chunk_size <= max_chunk_size.
MinChunkSizes == 1..max_chunk_size

\* Chunk number j is not the last of its group and is below the floor m.
ShortInside(j, m) ==
    /\ ~IsLastOfGroup(j)
    /\ Emitted[j].size < m

OneChunkPerNode ==
    /\ NodeLists(chunks) = [k \in 1..i |-> <<k>>]
    /\ \A k \in 1..Len(chunks) : chunks[k].seeded = 0

OneUnitPerChunkSplit ==
    one_symbol_per_chunk =>
        /\ OneChunkPerNode
        /\ \A k \in 1..Len(chunks) :
              nodes[k].size > max_chunk_size => chunks[k].size < nodes[k].size

(***************************************************************************)
(* C15, amended: with one_symbol_per_chunk chunkify emits exactly one      *)
(* chunk per node of the parser, in document order, each chunk holding     *)
(* that node whole, whatever the sizes and overlap_units; a node larger    *)
(* than max_chunk_size is emitted whole as well.                           *)
(***************************************************************************)
OneUnitPerChunk ==
    one_symbol_per_chunk =>
        /\ OneChunkPerNode
        /\ \A k \in 1..Len(chunks) : chunks[k].size = nodes[k].size

\* Three nodes emitted one by one with overlap asked for, one of them above
\* the limit.
OneUnitPerChunkWitness ==
    /\ one_symbol_per_chunk
    /\ pc = "done"
    /\ overlap_units > 0
    /\ Len(chunks) >= 3
    /\ nodes[1].size <= max_chunk_size
    /\ nodes[3].size > max_chunk_size

\* The lines longer than max_chunk_size, and the parts that hold such a line.
LongLines == {k \in 1..Len(lines) : lines[k] > max_chunk_size}

PartsWith(k) ==
    {p \in 1..Len(parts) :
        parts[p].type = PartType(node.type) /\ \E c \in 1..Len(parts[p].lines) : parts[p].lines[c] = k}

(***************************************************************************)
(* C16. Oversized atomic unit: a single line longer than max_chunk_size is *)
(* never cut mid-line and never dropped; once the split has returned it    *)
(* lies whole in exactly one part, that part exceeds max_chunk_size and    *)
(* the chunk made of it carries an explicit oversize flag.  The splitter   *)
(* keeps the line whole; nothing in the metadata flags it.                 *)
(***************************************************************************)
OversizedAtomicUnit ==
    (pc = "done" /\ ~node.has_children) =>
        \A k \in LongLines :
            /\ Cardinality(PartsWith(k)) = 1
            /\ \A p \in PartsWith(k) :
                  /\ parts[p].size >= lines[k]
                  /\ parts[p].size > max_chunk_size
                  /\ Oversize(parts[p])

\* Candidate n starts inside candidate p and ends after it.
PartialOverlap(p, n) ==
    /\ nodes[p].start_line < nodes[n].start_line
    /\ nodes[n].start_line <= nodes[p].end_line
    /\ nodes[p].end_line < nodes[n].end_line

\* No candidate's span holds the span of n.
Uncontained(n) ==
    \A q \in (1..Len(nodes)) \ {n} : ~SpanInside(n, q)

IsRoot(n) == \E r \in 1..Len(root_nodes) : root_nodes[r] = n

\* Every candidate is a root or a child of its parent, once.
AllPlaced ==
    \A n \in 1..Len(nodes) :
        IF parent_node[n] = 0 THEN IsRoot(n)
        ELSE /\ ~IsRoot(n)
             /\ Occurrences(children[parent_node[n]], n) = 1

(***************************************************************************)
(* C17. Overlap demotion: a candidate that partially overlaps an earlier   *)
(* candidate and lies inside no candidate is a root of the built forest,   *)
(* an anomaly is recorded for it, and every other candidate of the file    *)
(* has been placed as well.  The builder makes it a root and goes on, but  *)
(* records nothing.                                                        *)
(***************************************************************************)
OverlapDemotion ==
    pc = "built" =>
        \A n \in 1..Len(nodes) :
            (Uncontained(n) /\ \E p \in 1..Len(nodes) : PartialOverlap(p, n)) =>
                /\ IsRoot(n)
                /\ n \in Anomalies
                /\ AllPlaced

(***************************************************************************)
(* Vocabulary of the property about undersized groups.                     *)
(***************************************************************************)
\* The sibling group of node n, as GroupOf gives it for a chunk.
KeyOf(n) == IF impl = "CChunker" THEN "all" ELSE ParentKey(nodes[n])

\* The siblings of group g in document order, and the chunks made of them.
SiblingsOf(g) == SelectSeq([k \in 1..Len(nodes) |-> k], LAMBDA k : KeyOf(k) = g)

ChunksOf(g) == {j \in 1..Len(Emitted) : GroupOf(Emitted[j]) = g}

(***************************************************************************)
(* C19. Undersized group: once the chunker has returned, a non-empty       *)
(* sibling group whose total rendered size is below min_chunk_size, for    *)
(* any floor 0 < min_chunk_size <= max_chunk_size, has exactly one chunk,  *)
(* and that chunk holds all its siblings; its output is never withheld.    *)
(***************************************************************************)
UndersizedGroup ==
    pc = "done" =>
        \A n \in 1..Len(nodes) :
            LET siblings == SiblingsOf(KeyOf(n))
                total    == RenderedLen(siblings)
                made     == ChunksOf(KeyOf(n))
            IN  (\E m \in MinChunkSizes : total < m) =>
                    /\ Cardinality(made) = 1
                    /\ \A j \in made :
                          /\ Len(Emitted[j].nodes) = Len(siblings)
                          /\ \A k \in 1..Len(siblings) :
                                Occurrences(Emitted[j].nodes, siblings[k]) = 1

\* A group of two siblings that stays below the floor, next to another group.
UndersizedGroupWitness ==
    /\ impl = "CAST"
    /\ pc = "done"
    /\ \E n \in 1..Len(nodes) :
          /\ Len(SiblingsOf(KeyOf(n))) = 2
          /\ Len(SiblingsOf(KeyOf(n))) < Len(nodes)
          /\ RenderedLen(SiblingsOf(KeyOf(n))) < max_chunk_size
          /\ max_chunk_size \in MinChunkSizes

(***************************************************************************)
(* Vocabulary of the property about the innermost parent.                  *)
(***************************************************************************)
\* Every two candidates have different spans that are nested or apart.
NestedOrDisjoint ==
    \A a, b \in 1..Len(nodes) :
        a # b => /\ ~(SpanInside(a, b) /\ SpanInside(b, a))
                 /\ (~SpansOverlap(a, b) \/ SpanInside(a, b) \/ SpanInside(b, a))

\* The sorted list has containers first: no candidate lies inside a later one.
ContainersFirst == \A a, b \in 1..Len(nodes) : a < b => ~SpanInside(a, b)

\* The candidates whose span holds the span of n, and the innermost of them
\* (0 when there is none).
Containers(n) == {q \in (1..Len(nodes)) \ {n} : SpanInside(n, q)}

InnermostContainer(n) ==
    IF Containers(n) = {} THEN 0
    ELSE CHOOSE q \in Containers(n) : \A r \in Containers(n) \ {q} : SpanInside(q, r)

\* The stack sweep the claim compares with: the frames that ended before
\* candidate n starts are popped, the top left is the parent if it holds n,
\* and n is pushed.
RECURSIVE PopClosed(_, _)
PopClosed(stack, n) ==
    IF stack # <<>> /\ nodes[stack[Len(stack)]].end_line < nodes[n].start_line
    THEN PopClosed(SubSeq(stack, 1, Len(stack) - 1), n)
    ELSE stack

RECURSIVE SweepStack(_)
SweepStack(k) == IF k = 0 THEN <<>> ELSE Append(PopClosed(SweepStack(k - 1), k), k)

SweepParent(n) ==
    LET stack == PopClosed(SweepStack(n - 1), n)
    IN  IF stack # <<>> /\ SpanInside(n, stack[Len(stack)])
        THEN stack[Len(stack)] ELSE 0

(***************************************************************************)
(* C20. Innermost parent: for a candidate list sorted by (start_line,      *)
(* rank) whose spans are pairwise nested or disjoint, the all-pairs search *)
(* of the builder gives every candidate the parent the stack sweep gives   *)
(* it, namely the innermost candidate whose span contains it, and makes it *)
(* a root when no candidate contains it.  The search rejects a container   *)
(* of the same rank or the same start line, so it does not.                *)
(***************************************************************************)
InnermostParent ==
    (pc = "built" /\ NestedOrDisjoint /\ ContainersFirst) =>
        \A n \in 1..Len(nodes) :
            /\ parent_node[n] = SweepParent(n)
            /\ parent_node[n] = InnermostContainer(n)
            /\ IsRoot(n) <=> Containers(n) = {}

(***************************************************************************)
(* Vocabulary of the properties of the finished forest.                    *)
(***************************************************************************)
\* The nodes whose children list holds n, and how often n is listed at all:
\* in the root list and in every children list.
OwnersOf(n) == {p \in 1..Len(nodes) : Occurrences(children[p], n) > 0}

Listings(n) ==
    Occurrences(root_nodes, n)
    + SumSeq([p \in 1..Len(nodes) |-> Occurrences(children[p], n)])

(***************************************************************************)
(* C21. Exclusive ownership: after the hierarchy is built every node is    *)
(* listed exactly once in the forest, in the root list or in the children  *)
(* list of exactly one node, and that node is the one its parent           *)
(* back-reference points to; a deeply nested node is not left in the       *)
(* children list of an outer ancestor.  add_child never removes the node   *)
(* from the parent it had, so the builder breaks it.                       *)
(***************************************************************************)
ExclusiveOwnership ==
    pc = "built" =>
        \A n \in 1..Len(nodes) :
            /\ Listings(n) = 1
            /\ IF parent_node[n] = 0 THEN IsRoot(n) /\ OwnersOf(n) = {}
               ELSE ~IsRoot(n) /\ OwnersOf(n) = {parent_node[n]}

(***************************************************************************)
(* C22. Depth: in the finished forest every root has depth 0 and every     *)
(* other node's depth is its parent's depth plus 1, the number of          *)
(* ancestors on its parent chain, also for a node that was attached to an  *)
(* outer candidate before its parent.                                      *)
(***************************************************************************)
DepthOfChain ==
    pc = "built" =>
        \A n \in 1..Len(nodes) :
            /\ IsRoot(n) => depth[n] = 0
            /\ parent_node[n] # 0 => depth[n] = depth[parent_node[n]] + 1
            /\ depth[n] = Len(AncestorChain(n)) - 1

\* A node two levels down that was attached to the outer candidate first.
DepthOfChainWitness ==
    /\ pc = "built"
    /\ \E n \in 1..Len(nodes) :
          /\ depth[n] = 2
          /\ Cardinality(OwnersOf(n)) = 2
          /\ IsRoot(parent_node[parent_node[n]])

\* Candidates a and b have the same span.
SameSpan(a, b) ==
    /\ nodes[a].start_line = nodes[b].start_line
    /\ nodes[a].end_line = nodes[b].end_line

(***************************************************************************)
(* C23. Identical spans: when two candidates have the same span, the       *)
(* container-like one (first in the sort, the lower NODE_HIERARCHY number) *)
(* is the parent of the other, which lies one level below it, and no two   *)
(* siblings of the finished forest have an identical span.  The builder    *)
(* asks a parent to start on an earlier line, so both become siblings.     *)
(***************************************************************************)
IdenticalSpans ==
    pc = "built" =>
        /\ \A a, b \in 1..Len(nodes) :
              (a < b /\ SameSpan(a, b) /\ nodes[a].rank < nodes[b].rank
                     /\ \A c \in (1..Len(nodes)) \ {a, b} : ~SameSpan(a, c)) =>
                  /\ parent_node[b] = a
                  /\ depth[b] = depth[a] + 1
        /\ \A sl \in SiblingLists : \A j, k \in 1..Len(sl) :
              j # k => ~SameSpan(sl[j], sl[k])

\* The bytes the Splitter counts for the node: every line with a newline.
CountedLen == SumSeq(lines) + Len(lines)

IsPart(k) == k <= Len(parts) /\ parts[k].type = PartType(node.type)

(***************************************************************************)
(* C25. Split parts stay alone: when the Splitter has divided a node into  *)
(* two or more parts and the Merger has run on its sibling group, every    *)
(* chunk that holds a part holds nothing else, neither another part nor    *)
(* the neighbouring sibling, also when they fit together.  The Merger      *)
(* does not tell a part from any other node and merges what fits.          *)
(***************************************************************************)
SplitPartsAlone ==
    (pc = "merged" /\ Len(parts) >= 2) =>
        \A g \in 1..Len(result_groups) :
            (\E k \in 1..Len(result_groups[g].nodes) : IsPart(result_groups[g].nodes[k]))
                => Len(result_groups[g].nodes) = 1

\* The tag of part k: its kind and its name.
TagOf(k) == <<parts[k].type, parts[k].name>>

(***************************************************************************)
(* C26. Part traceability: the parts of one split node keep the node's     *)
(* name and kind, and their tags carry a part index, so that any two parts *)
(* of the node have different tags.  The Splitter gives every part the     *)
(* type "<type>_part" and the node's name, with no index.                  *)
(***************************************************************************)
PartTraceability ==
    (pc = "done" /\ Len(parts) >= 2) =>
        /\ \A k \in 1..Len(parts) :
              parts[k].name = node.name /\ parts[k].type = PartType(node.type)
        /\ \A j, k \in 1..Len(parts) : j # k => TagOf(j) # TagOf(k)

(***************************************************************************)
(* Vocabulary of the property about termination and flush.                 *)
(***************************************************************************)
\* The siblings held by the chunks emitted before chunk number j.
EmittedBefore(j) == UNION {Range(Emitted[h].nodes) : h \in 1..(j - 1)}

\* Every emitted chunk holds a sibling that no earlier chunk holds.
EveryChunkNew ==
    \A j \in 1..Len(Emitted) : Range(Emitted[j].nodes) \ EmittedBefore(j) # {}

\* At the end every sibling was consumed and is in some emitted chunk, and
\* the chunker's buffer went out with the last chunk.
FlushedAtDone ==
    pc = "done" =>
        /\ i = Len(nodes)
        /\ \A n \in 1..Len(nodes) : n \in EmittedBefore(Len(Emitted) + 1)
        /\ (impl = "CChunker" /\ nodes # <<>>) =>
              Emitted[Len(Emitted)] = EmitChunk(node_buffer, buffer, seeded)

(***************************************************************************)
(* C27. Merger termination and flush: for every sibling list and every     *)
(* configuration, overlap_units at least the number of units of a chunk    *)
(* included, the Merger reaches DONE having consumed every sibling once,   *)
(* every chunk it emits holds at least one sibling that no earlier chunk   *)
(* holds, and at DONE the buffer has been flushed so that every sibling is *)
(* in some emitted chunk.                                                  *)
(***************************************************************************)
MergerTerminatesFlushed ==
    /\ [](EveryChunkNew /\ FlushedAtDone)
    /\ <>(pc = "done")

\* The chunker is done with two chunks, the first of which has no more units
\* than overlap_units, so that the second was seeded with all of it.
MergerTerminatesWitness ==
    /\ impl = "CChunker"
    /\ pc = "done"
    /\ Len(chunks) >= 2
    /\ overlap_units >= Len(chunks[1].nodes)
    /\ chunks[2].seeded = Len(chunks[1].nodes)

\* The first unit of chunk number j that was not carried over.
FirstNew(j) == NewUnits(Emitted[j])[1]

(***************************************************************************)
(* C28. Document order of the chunk list: for a node list in document      *)
(* order, the nodes inside each returned chunk are in document order and   *)
(* each chunk's first non-seeded node comes after the first non-seeded     *)
(* node of the chunk before it, also when nodes of different conditional   *)
(* contexts are interleaved.  _group_related_nodes returns the groups one  *)
(* conditional context after the other and breaks the order of the list.   *)
(***************************************************************************)
ChunkListOrder ==
    (pc = "done" /\ InDocumentOrder) =>
        /\ \A j \in 1..Len(Emitted) : \A a, b \in 1..Len(Emitted[j].nodes) :
              a < b => Before(Emitted[j].nodes[a], Emitted[j].nodes[b])
        /\ \A j \in 1..(Len(Emitted) - 1) : Before(FirstNew(j), FirstNew(j + 1))

\* The length of the parts' texts joined with a newline between them.
JoinedPartsLen ==
    IF parts = <<>> THEN 0
    ELSE SumSeq([k \in 1..Len(parts) |-> parts[k].size]) + (Len(parts) - 1)

(***************************************************************************)
(* C29. Split round-trip: for every childless node and every               *)
(* max_chunk_size, the parts joined in order with a newline between them   *)
(* give back the node's text exactly: the lines of the parts are the lines *)
(* of the node, each once and in order, those after the last cut included, *)
(* and the joined text is as long as the node's text.  splitlines() drops  *)
(* the newline that ends the text and nothing puts it back.                *)
(***************************************************************************)
SplitRoundTrip ==
    (pc = "done" /\ ~node.has_children) =>
        /\ Flatten(PartLines) = [l \in 1..Len(lines) |-> l]
        /\ \A k \in 1..Len(parts) : parts[k].size = ChunkCodeLen(parts[k].lines)
        /\ JoinedPartsLen = CodeLen

\* The last line of the node: its text has Len(lines) lines.
NodeEndLine == node.start_line + Len(lines) - 1

(***************************************************************************)
(* C30. Line ranges of split parts: the parts of a node divided in two or  *)
(* more have consecutive, disjoint line ranges that cover the node's line  *)
(* range: the first part starts at the node's start line, each later part  *)
(* starts on the line after the previous part ends, the last part ends at  *)
(* the node's end line, and each part spans as many lines as its text has. *)
(* The Splitter gives every part the node's start line.                    *)
(***************************************************************************)
PartLineRanges ==
    (pc = "done" /\ Len(parts) >= 2) =>
        /\ parts[1].start_line = node.start_line
        /\ \A k \in 2..Len(parts) : parts[k].start_line = parts[k - 1].end_line + 1
        /\ parts[Len(parts)].end_line = NodeEndLine
        /\ \A k \in 1..Len(parts) :
              parts[k].end_line - parts[k].start_line + 1 = Len(parts[k].lines)

====
